---- MODULE Spec2Model ----
(***************************************************************************)
(* Model of the scripted test input driver, input/drivers/test_input.c:    *)
(* the JSON handlers that fill input_test_steps, test_input_init,          *)
(* test_input_poll, test_input_state and test_input_free_input.            *)
(***************************************************************************)
EXTENDS Integers, Sequences, FiniteSets, TLC

(***************************************************************************)
(* Program constants.                                                      *)
(***************************************************************************)
MAX_TEST_STEPS == 200
INPUT_TEST_COMMAND_PRESS_KEY == 1
INPUT_TEST_COMMAND_RELEASE_KEY == 2
\* libretro.h: one past the last key code; second dimension of test_key_state.
RETROK_LAST == 324
\* input_defines.h: number of real pads; test_key_state has one more slot.
DEFAULT_MAX_PADS == 16

\* libretro.h: device classes and the id that asks for all the buttons at once
RETRO_DEVICE_JOYPAD == 1
RETRO_DEVICE_KEYBOARD == 3
RETRO_DEVICE_ID_JOYPAD_MASK == 256
\* input_defines.h: the binds a libretro pad has, and the number of all binds
\* (pad, analog, lightgun and hotkey binds).  The sources at hand do not hold
\* the enum; binds are kept in 256-bit sets, so that the count is at most 256.
RARCH_FIRST_CUSTOM_BIND == 16
RARCH_BIND_LIST_END == 100

(***************************************************************************)
(* Bounds of the model.                                                    *)
(***************************************************************************)
\* objects (object-end callbacks) over all the scripts of one run of Spec
MaxObjects == 2
\* objects of the script of one run of SpecParse
MaxParseObjects == 2
\* calls of test_input_init in one run of SpecReinit
MaxSessions == 2
\* objects over all the scripts of one run of SpecReinit
MaxReinitObjects == 1
\* objects beyond MAX_TEST_STEPS that a script of SpecCap may hold
MaxExtra == 2
\* objects of the script of one run of SpecQuery
MaxQueryObjects == 2
\* objects over all the scripts of one run of SpecLive
MaxLiveObjects == 2
\* calls of test_input_init in one run of SpecLive
MaxLiveSessions == 2
\* the frame count up to which SpecLive follows the host frame by frame
MaxLiveFrame == 12

(***************************************************************************)
(* unsigned (32 bit) values are pairs <<hi, lo>> of 16-bit halves, so that *)
(* the additions of the code wrap at 2^32 as they do in C.  The uint64_t   *)
(* frame counter uses the same pairs with hi allowed to reach Limb (2^32   *)
(* and beyond all compare alike against an unsigned).                      *)
(***************************************************************************)
Limb == 65536

U(n) == <<n \div Limb, n % Limb>>

U32Add(a, n) ==
    LET lo == a[2] + n
    IN  <<(a[1] + (lo \div Limb)) % Limb, lo % Limb>>

ULess(a, b) == a[1] < b[1] \/ (a[1] = b[1] /\ a[2] < b[2])

\* the value pCtx->frame is compared with and reset to
FRAME_UNSET == U(65535)

(***************************************************************************)
(* string_to_unsigned (libretro-common): the text of a number token is a   *)
(* sequence of characters; anything but a non-empty run of decimal digits  *)
(* converts to 0, a run of digits to its value truncated to 32 bits.  The  *)
(* lexemes used here stay below ULONG_MAX, where strtoul would clamp.      *)
(***************************************************************************)
Digits == {"0", "1", "2", "3", "4", "5", "6", "7", "8", "9"}

DigitVal(c) ==
    CASE c = "0" -> 0 [] c = "1" -> 1 [] c = "2" -> 2 [] c = "3" -> 3
      [] c = "4" -> 4 [] c = "5" -> 5 [] c = "6" -> 6 [] c = "7" -> 7
      [] c = "8" -> 8 [] c = "9" -> 9

U32Mul10Add(a, d) ==
    LET lo == a[2] * 10 + d
    IN  <<(a[1] * 10 + (lo \div Limb)) % Limb, lo % Limb>>

RECURSIVE DecimalValue(_, _)
DecimalValue(s, acc) ==
    IF s = <<>> THEN acc
    ELSE DecimalValue(Tail(s), U32Mul10Add(acc, DigitVal(Head(s))))

string_to_unsigned(s) ==
    IF s = <<>> THEN U(0)
    ELSE IF \E i \in 1..Len(s) : s[i] \notin Digits THEN U(0)
    ELSE DecimalValue(s, U(0))

(***************************************************************************)
(* State.                                                                  *)
(***************************************************************************)
VARIABLES
    input_test_steps,   \* the written prefix of input_test_steps[]: index -> step
    current_test_step,
    last_test_step,
    test_key_state,     \* the <<slot, key>> entries of test_key_state[][] that are non-zero
    frame_count,        \* video_st->frame_count as test_input_poll last read it
    pc,                 \* "off", "parsing" (inside rjson_parse) or "running"
    context,            \* the KTifJSONContext of the read in progress
    pos,                \* what the token stream may yield next: "key" or "value"
    session,            \* calls of test_input_init so far
    nobj,               \* object-end callbacks of the read in progress
    used,               \* object-end callbacks of the whole run
    origin,             \* index -> the object the record was copied from: its place in
                        \* its script, whether it had a "frame" member and the lexeme
                        \* of the number that member was given
    has_frame,          \* the object in progress has a "frame" member
    member,             \* the name of the member whose value the parse awaits, or on
                        \* which it was aborted; "" otherwise
    given,              \* the lexeme of the number the object in progress gives its
                        \* "frame" member, <<>> if none
    named,              \* which of action, param_num, param_str the object in
                        \* progress names
    specified,          \* member -> what the script read so far last gave it: the
                        \* lexeme of a number, <<s>> for a string s, <<>> if nothing
    source,             \* the script path of the last test_input_init: "none", "noparser", "file"
    welltyped,          \* every member of the script read so far had a value of its type
    syntax_error,       \* rjson_parse returned an error
    warned,             \* "too long test input json" diagnostics of the last read
    fired,              \* index -> times test_input_poll handled the record since it was stored
    polled,             \* test_input_poll ran since the last test_input_init
    mono,               \* ... and the frame counts it saw never decreased
    clean,              \* test_key_state was all zero when the last test_input_init began
    success,            \* what the last input_test_file_read returned
    ret                 \* <<the call of test_input_state made since the last poll and what
                        \* it returned>>, or <<>>

vars == <<input_test_steps, current_test_step, last_test_step, test_key_state,
          frame_count, pc, context, pos, session, nobj, used, origin,
          has_frame, source, welltyped, syntax_error, warned, fired, polled, mono, clean,
          success, ret, member, given, named, specified>>

\* nothing specified yet
Unspecified == [action |-> <<>>, param_num |-> <<>>, param_str |-> <<>>]

\* static storage is zero-initialised
ZeroStep ==
    [frame |-> U(0), action |-> U(0), param_num |-> U(0), param_str |-> "",
     handled |-> FALSE]

StepAt(st, i) == IF i \in DOMAIN st THEN st[i] ELSE ZeroStep

Put(f, i, v) == IF i \in DOMAIN f THEN [f EXCEPT ![i] = v] ELSE f @@ (i :> v)

\* mutant: the context starts with frame at the unset value instead of zeroed
ZeroContext_FrameUnset ==
    [current_entry_uint_val |-> "NULL", current_entry_str_val |-> "NULL",
     frame |-> U(65535), action |-> U(0), param_num |-> U(0), param_str |-> ""]

\* KTifJSONContext context = {0}; a NULL char* is written ""
ZeroContext ==
    [current_entry_uint_val |-> "NULL", current_entry_str_val |-> "NULL",
     frame |-> U(0), action |-> U(0), param_num |-> U(0), param_str |-> ""]

(***************************************************************************)
(* The JSON handlers.                                                      *)
(***************************************************************************)
\* returns false ("something went wrong") when a param_str value is still awaited
KTifJSONObjectMemberHandler(c, pValue) ==
    IF c.current_entry_str_val # "NULL"
    THEN [ok |-> FALSE, ctx |-> c]
    ELSE [ok |-> TRUE,
          ctx |-> IF pValue = "" THEN c
                  ELSE IF pValue \in {"frame", "action", "param_num"}
                       THEN [c EXCEPT !.current_entry_uint_val = pValue]
                  ELSE IF pValue = "param_str"
                       THEN [c EXCEPT !.current_entry_str_val = pValue]
                  ELSE c]

KTifJSONNumberHandler(c, pValue) ==
    LET w == IF c.current_entry_uint_val # "NULL" /\ pValue # <<>>
             THEN [c EXCEPT ![c.current_entry_uint_val] = string_to_unsigned(pValue)]
             ELSE c
    IN  [w EXCEPT !.current_entry_uint_val = "NULL"]

KTifJSONStringHandler(c, pValue) ==
    LET w == IF c.current_entry_str_val # "NULL" /\ pValue # ""
             THEN [c EXCEPT !.param_str = pValue]
             ELSE c
    IN  [w EXCEPT !.current_entry_str_val = "NULL"]

\* the frame an object is stored with; prev is input_test_steps[current_test_step-1].frame
StoredFrame(c, prev) ==
    IF c.frame = FRAME_UNSET THEN U32Add(prev, 60) ELSE c.frame

\* mutant: pCtx->frame is not reset to the unset value after an object
KTifJSONObjectEndHandler_NoReset(c, st, cts, lts, garbage) ==
    IF cts >= MAX_TEST_STEPS
    THEN [ctx |-> c, steps |-> st, current_test_step |-> cts, last_test_step |-> lts]
    ELSE LET prev == IF cts = 0 THEN garbage ELSE StepAt(st, cts - 1).frame
             rec  == [frame     |-> StoredFrame(c, prev),
                      action    |-> c.action,
                      param_num |-> c.param_num,
                      param_str |-> c.param_str,
                      handled   |-> FALSE]
         IN  [ctx |-> c,
              steps |-> Put(st, cts, rec),
              current_test_step |-> cts + 1,
              last_test_step |-> cts + 1]

\* mutant: the capacity test written > instead of >=
KTifJSONObjectEndHandler_OffByOne(c, st, cts, lts, garbage) ==
    IF cts > MAX_TEST_STEPS
    THEN [ctx |-> c, steps |-> st, current_test_step |-> cts, last_test_step |-> lts]
    ELSE LET prev == IF cts = 0 THEN garbage ELSE StepAt(st, cts - 1).frame
             rec  == [frame     |-> StoredFrame(c, prev),
                      action    |-> c.action,
                      param_num |-> c.param_num,
                      param_str |-> c.param_str,
                      handled   |-> FALSE]
         IN  [ctx |-> [c EXCEPT !.frame = FRAME_UNSET],
              steps |-> Put(st, cts, rec),
              current_test_step |-> cts + 1,
              last_test_step |-> cts + 1]

\* garbage is what the read of input_test_steps[-1] yields when current_test_step is 0
KTifJSONObjectEndHandler(c, st, cts, lts, garbage) ==
    IF cts >= MAX_TEST_STEPS
    THEN [ctx |-> c, steps |-> st, current_test_step |-> cts, last_test_step |-> lts]
    ELSE LET prev == IF cts = 0 THEN garbage ELSE StepAt(st, cts - 1).frame
             rec  == [frame     |-> StoredFrame(c, prev),
                      action    |-> c.action,
                      param_num |-> c.param_num,
                      param_str |-> c.param_str,
                      handled   |-> FALSE]
         IN  [ctx |-> [c EXCEPT !.frame = FRAME_UNSET],
              steps |-> Put(st, cts, rec),
              current_test_step |-> cts + 1,
              last_test_step |-> cts + 1]

\* the indices of input_test_steps[] one call of the handler reads or writes
StepIndices(c, cts) ==
    IF cts >= MAX_TEST_STEPS THEN {}
    ELSE {cts} \cup (IF c.frame = FRAME_UNSET THEN {cts - 1} ELSE {})

(***************************************************************************)
(* test_input_poll: one scan of input_test_steps[0 .. last_test_step-1].   *)
(***************************************************************************)
\* mutant: curr_frame declared unsigned, the frame count truncated to 32 bits
Passed_Truncated(curr_frame, step) ==
    ULess(step.frame, <<curr_frame[1] % Limb, curr_frame[2]>>)

\* mutant: the comparison of line 362 written >= instead of >
Passed_NotStrict(curr_frame, step) == ~ULess(curr_frame, step.frame)

\* curr_frame > input_test_steps[i].frame, curr_frame a uint64_t
Passed(curr_frame, step) == ULess(step.frame, curr_frame)

InRange(param_num) == param_num[1] = 0 /\ param_num[2] < RETROK_LAST

\* mutant: the key is written to the slot of the first pad
VKey_FirstPad(param_num) == <<0, param_num[2]>>

VKey(param_num) == <<DEFAULT_MAX_PADS, param_num[2]>>

\* mutant: the branch for other action codes forgets to mark the record handled
HandleStep_UnknownNotConsumed(step, ks) ==
    IF step.action = U(INPUT_TEST_COMMAND_PRESS_KEY)
    THEN [step |-> [step EXCEPT !.handled = TRUE],
          keys |-> IF InRange(step.param_num)
                   THEN ks \cup {VKey(step.param_num)} ELSE ks]
    ELSE IF step.action = U(INPUT_TEST_COMMAND_RELEASE_KEY)
    THEN [step |-> [step EXCEPT !.handled = TRUE],
          keys |-> IF InRange(step.param_num)
                   THEN ks \ {VKey(step.param_num)} ELSE ks]
    ELSE [step |-> step, keys |-> ks]

\* mutant: the release branch writes 1 as the press branch does
HandleStep_ReleaseSets(step, ks) ==
    IF step.action \in {U(INPUT_TEST_COMMAND_PRESS_KEY), U(INPUT_TEST_COMMAND_RELEASE_KEY)}
    THEN [step |-> [step EXCEPT !.handled = TRUE],
          keys |-> IF InRange(step.param_num)
                   THEN ks \cup {VKey(step.param_num)} ELSE ks]
    ELSE [step |-> [step EXCEPT !.handled = TRUE], keys |-> ks]

\* mutant: the key code is not tested against RETROK_LAST
HandleStep_NoRangeCheck(step, ks) ==
    IF step.action = U(INPUT_TEST_COMMAND_PRESS_KEY)
    THEN [step |-> [step EXCEPT !.handled = TRUE],
          keys |-> ks \cup {VKey(step.param_num)}]
    ELSE IF step.action = U(INPUT_TEST_COMMAND_RELEASE_KEY)
    THEN [step |-> [step EXCEPT !.handled = TRUE],
          keys |-> ks \ {VKey(step.param_num)}]
    ELSE [step |-> [step EXCEPT !.handled = TRUE], keys |-> ks]

\* the body of the loop for one record that is due
HandleStep(step, ks) ==
    IF step.action = U(INPUT_TEST_COMMAND_PRESS_KEY)
    THEN [step |-> [step EXCEPT !.handled = TRUE],
          keys |-> IF InRange(step.param_num)
                   THEN ks \cup {VKey(step.param_num)} ELSE ks]
    ELSE IF step.action = U(INPUT_TEST_COMMAND_RELEASE_KEY)
    THEN [step |-> [step EXCEPT !.handled = TRUE],
          keys |-> IF InRange(step.param_num)
                   THEN ks \ {VKey(step.param_num)} ELSE ks]
    ELSE [step |-> [step EXCEPT !.handled = TRUE], keys |-> ks]

Due(step, curr_frame) == ~step.handled /\ Passed(curr_frame, step)

RECURSIVE PollFrom(_, _, _, _, _)
PollFrom(i, st, ks, n, curr_frame) ==
    IF i >= n THEN [steps |-> st, keys |-> ks]
    ELSE IF Due(StepAt(st, i), curr_frame)
         THEN LET r == HandleStep(StepAt(st, i), ks)
              IN  PollFrom(i + 1, Put(st, i, r.step), r.keys, n, curr_frame)
         ELSE PollFrom(i + 1, st, ks, n, curr_frame)

\* mutant: the scan stops after the first record it handles
RECURSIVE PollFirstDue(_, _, _, _, _)
PollFirstDue(i, st, ks, n, curr_frame) ==
    IF i >= n THEN [steps |-> st, keys |-> ks]
    ELSE IF Due(StepAt(st, i), curr_frame)
         THEN LET r == HandleStep(StepAt(st, i), ks)
              IN  [steps |-> Put(st, i, r.step), keys |-> r.keys]
         ELSE PollFirstDue(i + 1, st, ks, n, curr_frame)

test_input_poll_StopsAfterFirst(st, ks, n, curr_frame) ==
    PollFirstDue(0, st, ks, n, curr_frame)

test_input_poll(st, ks, n, curr_frame) == PollFrom(0, st, ks, n, curr_frame)

\* the indices of input_test_steps[] one scan reads or writes
PollIndices(n) == 0 .. (n - 1)

\* test_keyboard_free clears the slots below DEFAULT_MAX_PADS
test_keyboard_free(ks) == {e \in ks : ~(e[1] < DEFAULT_MAX_PADS)}

(***************************************************************************)
(* test_input_state.  binds is binds[port], a table from bind index to     *)
(* [valid, key]; an index the table lacks reads as an invalid bind.        *)
(***************************************************************************)
NoBind == [valid |-> FALSE, key |-> 0]

BindAt(binds, i) == IF i \in DOMAIN binds THEN binds[i] ELSE NoBind

\* input_keymaps_init_keyboard_lut(rarch_key_map_test): the table from RETROK
\* codes to the codes of the driver, which indexes test_key_state by RETROK code
rarch_keysym_lut(key) == key

KeyDown(ks, key) == <<DEFAULT_MAX_PADS, rarch_keysym_lut(key)>> \in ks

\* a value of type int, stored into an int16_t
ToInt16(v) == IF v % 65536 >= 32768 THEN (v % 65536) - 65536 ELSE v % 65536

\* the loop of lines 299-309 from index i on; ret |= (1 << i) adds 2^i, each
\* index being visited once
RECURSIVE MaskFrom(_, _, _, _, _)
MaskFrom(i, ks, binds, id, acc) ==
    IF i >= RARCH_FIRST_CUSTOM_BIND THEN acc
    ELSE IF /\ BindAt(binds, i).valid
            /\ id < RARCH_BIND_LIST_END
            /\ KeyDown(ks, BindAt(binds, i).key)
         THEN MaskFrom(i + 1, ks, binds, id, ToInt16(acc + 2 ^ i))
         ELSE MaskFrom(i + 1, ks, binds, id, acc)

\* mutant: the test of the port is dropped
test_input_state_AnyPort(ks, binds, port, device, idx, id) ==
    CASE device = RETRO_DEVICE_JOYPAD ->
             IF id = RETRO_DEVICE_ID_JOYPAD_MASK
             THEN MaskFrom(0, ks, binds, id, 0)
             ELSE IF /\ BindAt(binds, id).valid
                     /\ id < RARCH_BIND_LIST_END
                     /\ KeyDown(ks, BindAt(binds, id).key)
                  THEN 1 ELSE 0
      [] device = RETRO_DEVICE_KEYBOARD ->
             IF id < RARCH_BIND_LIST_END /\ KeyDown(ks, BindAt(binds, id).key)
             THEN 1 ELSE 0
      [] OTHER -> 0

\* port is unsigned: port <= 0 is port = 0
test_input_state(ks, binds, port, device, idx, id) ==
    IF port # 0 THEN 0
    ELSE CASE device = RETRO_DEVICE_JOYPAD ->
                  IF id = RETRO_DEVICE_ID_JOYPAD_MASK
                  THEN MaskFrom(0, ks, binds, id, 0)
                  ELSE IF /\ BindAt(binds, id).valid
                          /\ id < RARCH_BIND_LIST_END
                          /\ KeyDown(ks, BindAt(binds, id).key)
                       THEN 1 ELSE 0
           [] device = RETRO_DEVICE_KEYBOARD ->
                  IF id < RARCH_BIND_LIST_END /\ KeyDown(ks, BindAt(binds, id).key)
                  THEN 1 ELSE 0
           [] OTHER -> 0

(***************************************************************************)
(* The end of input_test_file_read (after rjson_parse or `goto end`) and   *)
(* of test_input_init: the overflow diagnostic, the rewind of              *)
(* current_test_step and the reset of an over-large last_test_step.        *)
(***************************************************************************)
TooLong(lts) == lts >= MAX_TEST_STEPS

InitScanBound(lts) == IF lts > MAX_TEST_STEPS THEN 0 ELSE lts

(***************************************************************************)
(* Inputs: member names, number lexemes, string values, frame counts and   *)
(* what an out-of-bounds read of input_test_steps[-1].frame may yield.     *)
(***************************************************************************)
MemberNames == {"frame", "action", "param_num", "param_str", "other"}

NumericMembers == {"frame", "action", "param_num"}

\* the names SpecParse tries: "param_num" goes through the same lines of the
\* handlers as "action" and is left to the other specifications
ParseMembers == MemberNames \ {"param_num"}

\* number lexemes are sequences of characters
Lex10 == <<"1", "0">>
Lex20 == <<"2", "0">>
Lex65535 == <<"6", "5", "5", "3", "5">>
Lex4294967290 == <<"4", "2", "9", "4", "9", "6", "7", "2", "9", "0">>
Lex4294967295 == <<"4", "2", "9", "4", "9", "6", "7", "2", "9", "5">>

\* the number lexemes Spec tries for a value, by the member the context points at
ReplayLexemes(target) ==
    CASE target = "frame" -> {Lex10, Lex20}
      [] target = "action" -> { <<"1">>, <<"2">> }
      [] target = "param_num" -> { <<"5">>, <<"7">>, <<"4", "0", "0">> }
      [] OTHER -> { <<"1", "2">> }

\* the number lexemes SpecParse, SpecReinit and SpecCap try
ParseLexemes(target) ==
    CASE target = "frame" -> {Lex10, Lex20, Lex65535, Lex4294967290}
      [] target = "action" -> { <<"1">> }
      [] target = "param_num" -> { <<"7">> }
      [] OTHER -> { <<"1", "2">> }

StringValues == {"", "abc"}

PollFrames == {U(0), U(1), U(10), U(11), U(21), <<Limb, 0>>}

GarbageFrames == {U(0), <<Limb - 1, Limb - 1>>}

\* the number lexemes SpecQuery tries
QueryLexemes(target) ==
    CASE target = "action" -> { <<"1">>, <<"2">> }
      [] target = "param_num" -> { <<"5">>, <<"7">> }
      [] OTHER -> { <<"1", "2">> }

QueryPollFrames == {U(0), U(1), U(61)}

\* the number lexemes SpecLive tries
LiveLexemes(target) ==
    CASE target = "frame" -> {Lex10, Lex65535, Lex4294967295}
      [] target = "action" -> { <<"1">> }
      [] target = "param_num" -> { <<"7">> }
      [] OTHER -> { <<"1", "2">> }

(***************************************************************************)
(* The host of SpecLive calls test_input_poll once per frame, and          *)
(* video_st->frame_count goes up by one from call to call.  The model      *)
(* follows the calls one by one up to MaxLiveFrame; of the calls after     *)
(* that it shows those at the frame counts of LiveStops, the last of which *)
(* is 2^32, above every value an unsigned frame can hold.  A call the      *)
(* model skips handles only records that the next call shown handles too.  *)
(***************************************************************************)
LiveStops == <<U(121), <<0, Limb - 1>>, <<Limb - 1, Limb - 1>>, <<Limb, 0>>>>

NextFrame(c) ==
    IF ULess(c, U(MaxLiveFrame)) THEN U32Add(c, 1)
    ELSE LET later == {k \in 1 .. Len(LiveStops) : ULess(c, LiveStops[k])}
         IN  IF later = {} THEN c
             ELSE LiveStops[CHOOSE k \in later : \A j \in later : k <= j]

\* the arguments SpecQuery calls test_input_state with
QueryPorts == {0, 1}
QueryDevices == {RETRO_DEVICE_JOYPAD, RETRO_DEVICE_KEYBOARD}
QueryIds == {0, 1, RETRO_DEVICE_ID_JOYPAD_MASK}
BindTables ==
    { (0 :> [valid |-> TRUE, key |-> 5]) @@ (1 :> [valid |-> TRUE, key |-> 7])
        @@ (15 :> [valid |-> TRUE, key |-> 7]),
      (0 :> [valid |-> TRUE, key |-> 7]) @@ (1 :> [valid |-> FALSE, key |-> 5]) }

(***************************************************************************)
(* Init: the static initialisers of the file; the driver is not yet        *)
(* initialised.                                                            *)
(***************************************************************************)
Init ==
    /\ input_test_steps = <<>>
    /\ current_test_step = 0
    /\ last_test_step = MAX_TEST_STEPS + 1
    /\ test_key_state = {}
    /\ frame_count = U(0)
    /\ pc = "off"
    /\ context = ZeroContext
    /\ pos = "key"
    /\ session = 0
    /\ nobj = 0
    /\ used = 0
    /\ origin = <<>>
    /\ has_frame = FALSE
    /\ source = "none"
    /\ welltyped = TRUE /\ syntax_error = FALSE
    /\ warned = 0
    /\ fired = <<>>
    /\ polled = FALSE
    /\ mono = TRUE
    /\ clean = TRUE
    /\ success = FALSE
    /\ ret = <<>>
    /\ member = "" /\ given = <<>>
    /\ named = {} /\ specified = Unspecified

\* what the rest of test_input_init does once rjson_parse has returned
\* (or was skipped): lines 228-255 and 347-348; ok is the value of success
Finish(lts, ok) ==
    /\ success' = ok
    /\ warned' = IF TooLong(lts) THEN 1 ELSE 0
    /\ current_test_step' = 0
    /\ last_test_step' = InitScanBound(lts)
    /\ pc' = "running"
    /\ context' = ZeroContext
    /\ pos' = "key"
    /\ has_frame' = FALSE

\* test_input_init up to the first token of the script
InitBegin(path) ==
    /\ pc = "off"
    /\ session' = session + 1
    /\ source' = path
    /\ nobj' = 0
    /\ welltyped' = TRUE /\ syntax_error' = FALSE
    /\ polled' = FALSE
    /\ mono' = TRUE
    /\ clean' = (test_key_state = {})
    /\ member' = "" /\ given' = <<>>
    /\ named' = {} /\ specified' = Unspecified
    /\ UNCHANGED <<input_test_steps, test_key_state, frame_count, used, origin, fired, ret>>
    /\ CASE path = "none" ->
              \* input_test_file_read returns false before touching anything
              /\ last_test_step' = InitScanBound(last_test_step)
              /\ pc' = "running"
              /\ warned' = 0
              /\ success' = FALSE
              /\ UNCHANGED <<current_test_step, context, pos, has_frame>>
         [] path = "noparser" ->
              \* rjson_open_rfile failed: goto end
              Finish(last_test_step, FALSE)
         [] path = "file" ->
              /\ pc' = "parsing"
              /\ context' = ZeroContext
              /\ pos' = "key"
              /\ has_frame' = FALSE
              /\ warned' = 0
              /\ UNCHANGED <<current_test_step, last_test_step, success>>

RunningVars == <<test_key_state, frame_count, session, source, used, polled, mono,
                 clean, fired, ret>>

\* a member name inside an object
MemberTok(name) ==
    /\ pc = "parsing" /\ pos = "key"
    /\ LET r == KTifJSONObjectMemberHandler(context, name)
       IN  IF r.ok
           THEN /\ context' = r.ctx
                /\ pos' = "value"
                /\ has_frame' = (has_frame \/ name = "frame")
                /\ given' = given
                /\ named' = named \cup ({name} \cap {"action", "param_num", "param_str"})
                /\ specified' = specified
                /\ UNCHANGED <<input_test_steps, current_test_step, last_test_step,
                               pc, nobj, origin, welltyped, syntax_error, warned, success>>
           ELSE \* the handler's false makes rjson_parse return an error
                /\ Finish(last_test_step, TRUE)
                /\ syntax_error' = TRUE /\ welltyped' = welltyped
                /\ given' = <<>>
                /\ named' = {} /\ specified' = Unspecified
                /\ UNCHANGED <<input_test_steps, nobj, origin>>
    /\ member' = name
    /\ UNCHANGED RunningVars

NumberTok(lexeme) ==
    /\ pc = "parsing" /\ pos = "value"
    /\ context' = KTifJSONNumberHandler(context, lexeme)
    /\ pos' = "key"
    /\ given' = IF member = "frame" THEN lexeme ELSE given
    /\ specified' = IF member \in {"action", "param_num"}
                    THEN [specified EXCEPT ![member] = lexeme] ELSE specified
    /\ named' = named
    /\ member' = ""
    /\ welltyped' = (welltyped /\ context.current_entry_str_val = "NULL")
    /\ syntax_error' = syntax_error
    /\ UNCHANGED <<input_test_steps, current_test_step, last_test_step, pc, nobj,
                   origin, has_frame, warned, success>>
    /\ UNCHANGED RunningVars

StringTok(value) ==
    /\ pc = "parsing" /\ pos = "value"
    /\ context' = KTifJSONStringHandler(context, value)
    /\ pos' = "key"
    /\ member' = "" /\ given' = given
    /\ specified' = IF member = "param_str"
                    THEN [specified EXCEPT !.param_str = <<value>>] ELSE specified
    /\ named' = named
    /\ welltyped' = (welltyped /\ context.current_entry_uint_val = "NULL")
    /\ syntax_error' = syntax_error
    /\ UNCHANGED <<input_test_steps, current_test_step, last_test_step, pc, nobj,
                   origin, has_frame, warned, success>>
    /\ UNCHANGED RunningVars

\* true, false or null: rjson_parse is passed no handler for them
LiteralTok ==
    /\ pc = "parsing" /\ pos = "value"
    /\ pos' = "key"
    /\ member' = "" /\ given' = given
    /\ UNCHANGED <<named, specified>>
    /\ welltyped' = (welltyped /\ context.current_entry_uint_val = "NULL"
                       /\ context.current_entry_str_val = "NULL")
    /\ syntax_error' = syntax_error
    /\ UNCHANGED <<input_test_steps, current_test_step, last_test_step, pc, nobj,
                   context, origin, has_frame, warned, success>>
    /\ UNCHANGED RunningVars

ObjectEndTok(garbage) ==
    /\ pc = "parsing" /\ pos = "key"
    /\ LET r == KTifJSONObjectEndHandler(context, input_test_steps,
                                         current_test_step, last_test_step, garbage)
           stored == current_test_step < MAX_TEST_STEPS
       IN  /\ context' = r.ctx
           /\ input_test_steps' = r.steps
           /\ current_test_step' = r.current_test_step
           /\ last_test_step' = r.last_test_step
           /\ origin' = IF stored
                        THEN Put(origin, current_test_step,
                                 [obj |-> nobj, has_frame |-> has_frame,
                                  lexeme |-> given])
                        ELSE origin
           /\ fired' = IF stored THEN Put(fired, current_test_step, 0) ELSE fired
    /\ nobj' = nobj + 1
    /\ used' = used + 1
    /\ has_frame' = FALSE
    /\ given' = <<>>
    /\ member' = member
    /\ named' = {} /\ specified' = specified
    /\ UNCHANGED <<test_key_state, frame_count, pc, pos, session, source, welltyped, syntax_error,
                   warned, polled, mono, clean, success, ret>>

\* rjson_parse returns: RJSON_DONE at the end of the document, or an error
ParseEnd(error) ==
    /\ pc = "parsing"
    /\ error \/ pos = "key"
    /\ Finish(last_test_step, TRUE)
    /\ syntax_error' = error /\ welltyped' = welltyped
    /\ member' = "" /\ given' = <<>>
    /\ named' = {} /\ specified' = Unspecified
    /\ UNCHANGED <<input_test_steps, nobj, origin>>
    /\ UNCHANGED RunningVars

Poll(curr_frame) ==
    /\ pc = "running"
    /\ LET r == test_input_poll(input_test_steps, test_key_state, last_test_step,
                                curr_frame)
       IN  /\ input_test_steps' = r.steps
           /\ test_key_state' = r.keys
    /\ fired' = [i \in DOMAIN fired |->
                    IF i < last_test_step /\ Due(StepAt(input_test_steps, i), curr_frame)
                    THEN fired[i] + 1 ELSE fired[i]]
    /\ frame_count' = curr_frame
    /\ mono' = (mono /\ (~polled \/ ~ULess(curr_frame, frame_count)))
    /\ polled' = TRUE
    /\ ret' = <<>>
    /\ UNCHANGED <<current_test_step, last_test_step, pc, context, pos, session,
                   nobj, used, origin, has_frame, source, welltyped, syntax_error, warned, clean,
                   success, member, given, named, specified>>

test_input_free_input ==
    /\ pc = "running"
    /\ test_key_state' = test_keyboard_free(test_key_state)
    /\ pc' = "off"
    /\ ret' = <<>>
    /\ UNCHANGED <<input_test_steps, current_test_step, last_test_step, frame_count,
                   context, pos, session, nobj, used, origin, has_frame, source, welltyped, syntax_error,
                   warned, fired, polled, mono, clean, success, member, given, named,
                   specified>>

\* the host samples the input: one call of test_input_state
Query(binds, port, device, idx, id) ==
    /\ pc = "running"
    /\ ret' = << [binds |-> binds, port |-> port, device |-> device, idx |-> idx,
                  id |-> id,
                  value |-> test_input_state(test_key_state, binds, port, device,
                                             idx, id)] >>
    /\ UNCHANGED <<input_test_steps, current_test_step, last_test_step, test_key_state,
                   frame_count, pc, context, pos, session, nobj, used, origin,
                   has_frame, source, welltyped, syntax_error, warned, fired, polled,
                   mono, clean, success, member, given, named, specified>>

\* the host's call of test_input_poll for the next frame; the call that follows
\* test_input_init comes in the frame of the last call before it
Advance ==
    Poll(IF polled THEN NextFrame(frame_count) ELSE frame_count)

(***************************************************************************)
(* Spec: one session of the driver from process start, reading a short     *)
(* script of objects with numeric members and replaying it.                *)
(***************************************************************************)
Next ==
    \/ \E path \in {"none", "noparser", "file"} :
          session < 1 /\ InitBegin(path)
    \/ \E name \in NumericMembers : used < MaxObjects /\ MemberTok(name)
    \/ \E lexeme \in ReplayLexemes(context.current_entry_uint_val) : NumberTok(lexeme)
    \/ \E garbage \in GarbageFrames : used < MaxObjects /\ ObjectEndTok(garbage)
    \/ \E error \in BOOLEAN : ParseEnd(error)
    \/ \E curr_frame \in PollFrames : Poll(curr_frame)
    \/ test_input_free_input

Spec == Init /\ [][Next]_vars

(***************************************************************************)
(* SpecParse: one read of a short script in which any member name may meet *)
(* any kind of value, and frames reach the ends of the unsigned range.  An *)
(* object names "frame" at most once; the other names may repeat.  Of the  *)
(* two numeric members that carry over, it names "action".                 *)
(***************************************************************************)
NextParse ==
    \/ session < 1 /\ InitBegin("file")
    \/ \E name \in ParseMembers :
          used < MaxParseObjects /\ ~(name = "frame" /\ has_frame) /\ MemberTok(name)
    \/ \E lexeme \in ParseLexemes(context.current_entry_uint_val) : NumberTok(lexeme)
    \/ \E value \in StringValues : StringTok(value)
    \/ LiteralTok
    \/ \E garbage \in GarbageFrames : used < MaxParseObjects /\ ObjectEndTok(garbage)
    \/ \E error \in BOOLEAN : ParseEnd(error)

SpecParse == Init /\ [][NextParse]_vars

(***************************************************************************)
(* SpecReinit: the driver is initialised, freed and initialised again in   *)
(* one process; the statics keep what the earlier session left.            *)
(***************************************************************************)
NextReinit ==
    \/ \E path \in {"none", "noparser", "file"} :
          session < MaxSessions /\ InitBegin(path)
    \/ \E name \in NumericMembers : used < MaxReinitObjects /\ MemberTok(name)
    \/ \E lexeme \in ParseLexemes(context.current_entry_uint_val) : NumberTok(lexeme)
    \/ \E garbage \in GarbageFrames : used < MaxReinitObjects /\ ObjectEndTok(garbage)
    \/ \E error \in BOOLEAN : ParseEnd(error)
    \/ \E curr_frame \in PollFrames : Poll(curr_frame)
    \/ test_input_free_input

SpecReinit == Init /\ [][NextReinit]_vars

(***************************************************************************)
(* SpecCap: one session reading a long script: a first object with any     *)
(* numeric members, then objects without members, up to MaxExtra objects   *)
(* more than input_test_steps[] can hold.                                  *)
(***************************************************************************)
NextCap ==
    \/ session < 1 /\ InitBegin("file")
    \/ \E name \in NumericMembers : nobj < 1 /\ MemberTok(name)
    \/ \E lexeme \in ParseLexemes(context.current_entry_uint_val) : NumberTok(lexeme)
    \/ \E garbage \in GarbageFrames :
          nobj < MAX_TEST_STEPS + MaxExtra /\ ObjectEndTok(garbage)
    \/ \E error \in BOOLEAN : ParseEnd(error)

SpecCap == Init /\ [][NextCap]_vars

(***************************************************************************)
(* SpecQuery: one session reading a short script of presses and releases,  *)
(* replaying it, with the host calling test_input_state in between.        *)
(***************************************************************************)
NextQuery ==
    \/ session < 1 /\ InitBegin("file")
    \/ \E name \in {"action", "param_num"} : used < MaxQueryObjects /\ MemberTok(name)
    \/ \E lexeme \in QueryLexemes(context.current_entry_uint_val) : NumberTok(lexeme)
    \/ \E garbage \in GarbageFrames : used < MaxQueryObjects /\ ObjectEndTok(garbage)
    \/ \E error \in BOOLEAN : ParseEnd(error)
    \/ \E curr_frame \in QueryPollFrames : Poll(curr_frame)
    \/ test_input_free_input
    \/ \E binds \in BindTables, port \in QueryPorts, device \in QueryDevices, id \in QueryIds :
          Query(binds, port, device, 0, id)

SpecQuery == Init /\ [][NextQuery]_vars

(***************************************************************************)
(* SpecLive: sessions reading a short script, in each of which the host    *)
(* calls test_input_poll frame after frame for as long as the driver is    *)
(* not freed: the runloop polls the input driver once in every frame, so   *)
(* a call that stays possible is made.                                     *)
(***************************************************************************)
NextLive ==
    \/ \E path \in {"none", "noparser", "file"} :
          session < MaxLiveSessions /\ InitBegin(path)
    \/ \E name \in NumericMembers : used < MaxLiveObjects /\ MemberTok(name)
    \/ \E lexeme \in LiveLexemes(context.current_entry_uint_val) : NumberTok(lexeme)
    \/ \E garbage \in GarbageFrames : used < MaxLiveObjects /\ ObjectEndTok(garbage)
    \/ \E error \in BOOLEAN : ParseEnd(error)
    \/ Advance
    \/ test_input_free_input

SpecLive == Init /\ [][NextLive]_vars /\ WF_vars(Advance)

(***************************************************************************)
(* Vocabulary of the properties.                                           *)
(***************************************************************************)
\* the records test_input_poll scans, once test_input_init has set the bound
Populated == IF pc = "running" THEN 0 .. (last_test_step - 1) ELSE {}

Pressed(key) == <<DEFAULT_MAX_PADS, key>> \in test_key_state

\* a step of test_input_poll (the only step from "running" to "running" that
\* is not a call of test_input_state)
PollStep == pc = "running" /\ pc' = "running" /\ ret' = <<>>

\* record i holds: frame f, action a, key k
Holds(i, f, a, k) ==
    /\ i \in DOMAIN input_test_steps
    /\ input_test_steps[i].frame = U(f)
    /\ input_test_steps[i].action = U(a)
    /\ input_test_steps[i].param_num = U(k)

\* the script read was valid JSON with every member given a value of its type
Valid == welltyped /\ ~syntax_error

\* the first session of the process has read a valid script of n objects
FirstRead(n) ==
    /\ pc = "running" /\ session = 1 /\ source = "file" /\ Valid /\ nobj = n

\* every poll since test_input_init saw a frame count of at most / exactly f
PolledUpTo(f) == polled /\ mono /\ ~ULess(U(f), frame_count)
PolledAt(f) == polled /\ mono /\ frame_count = U(f)

(***************************************************************************)
(* C1: a populated step with trigger frame F is left unconsumed by a poll  *)
(* whose frame count is F or less and is handled by the first poll whose   *)
(* frame count is F+1 or more; and for the script                          *)
(* [{frame 10, press 7}, {frame 20, release 7}] key 7 is up after polls up *)
(* to frame 10, down after a poll at frame 11 and up after one at 21.      *)
(***************************************************************************)
C1_Script ==
    /\ FirstRead(2)
    /\ Holds(0, 10, INPUT_TEST_COMMAND_PRESS_KEY, 7) /\ origin[0].has_frame
    /\ Holds(1, 20, INPUT_TEST_COMMAND_RELEASE_KEY, 7) /\ origin[1].has_frame

C1_Scenario ==
    C1_Script =>
        /\ PolledUpTo(10) => ~Pressed(7)
        /\ PolledAt(11) => Pressed(7)
        /\ PolledAt(21) => ~Pressed(7)

C1_PollRule ==
    PollStep =>
        \A i \in Populated :
            ~input_test_steps[i].handled =>
                /\ input_test_steps'[i].handled
                       <=> ULess(input_test_steps[i].frame, frame_count')
                /\ fired'[i] = IF ULess(input_test_steps[i].frame, frame_count')
                               THEN fired[i] + 1 ELSE fired[i]

C1_TriggerStrictlyAfterFrame == []C1_Scenario /\ [][C1_PollRule]_vars

C1_Witness ==
    /\ C1_Script /\ PolledAt(11) /\ Pressed(7)
    /\ input_test_steps[0].handled /\ ~input_test_steps[1].handled

(***************************************************************************)
(* C2: within one session each populated record is handled at most once:  *)
(* handled is false once test_input_init has parsed it, is set by the poll *)
(* that handles the record whatever its action, never becomes false again, *)
(* and a poll in which no unhandled record is due changes neither the key  *)
(* table nor any record.                                                   *)
(***************************************************************************)
C2_Counts ==
    \A i \in Populated :
        /\ fired[i] <= 1
        /\ input_test_steps[i].handled <=> fired[i] = 1
        /\ (~polled /\ source = "file" /\ i < nobj) => ~input_test_steps[i].handled

C2_PollRule ==
    PollStep =>
        /\ \A i \in Populated :
              /\ input_test_steps[i].handled => input_test_steps'[i].handled
              /\ fired'[i] > fired[i] => input_test_steps'[i].handled
        /\ (\A i \in Populated : ~Due(input_test_steps[i], frame_count'))
              => UNCHANGED <<test_key_state, input_test_steps>>

C2_AtMostOnce == []C2_Counts /\ [][C2_PollRule]_vars

C2_Witness ==
    /\ pc = "running" /\ polled /\ ~mono /\ last_test_step = 2
    /\ \A i \in Populated : input_test_steps[i].handled /\ fired[i] = 1
    /\ input_test_steps[0].action = U(0)
    /\ input_test_steps[1].action = U(INPUT_TEST_COMMAND_PRESS_KEY)

(***************************************************************************)
(* C3: a poll repeated with the same frame count changes nothing: in every *)
(* state, for every frame count, polling twice gives what polling once     *)
(* gives; and a poll at the frame count of the poll before it leaves the   *)
(* key table and the records as they are.                                  *)
(***************************************************************************)
C3_Twice ==
    pc = "running" =>
        \A f \in PollFrames :
            LET once  == test_input_poll(input_test_steps, test_key_state,
                                         last_test_step, f)
                twice == test_input_poll(once.steps, once.keys, last_test_step, f)
            IN  twice = once

C3_Repeat ==
    (PollStep /\ polled /\ frame_count' = frame_count)
        => UNCHANGED <<test_key_state, input_test_steps>>

C3_Idempotent == []C3_Twice /\ [][C3_Repeat]_vars

\* a state in which one poll handles two records and changes the key table
C3_Witness ==
    /\ pc = "running" /\ last_test_step = 2
    /\ \E f \in PollFrames :
          LET once == test_input_poll(input_test_steps, test_key_state,
                                      last_test_step, f)
          IN  /\ once.keys # test_key_state
              /\ \A i \in Populated :
                    ~input_test_steps[i].handled /\ once.steps[i].handled

(***************************************************************************)
(* C4 as claimed: for a Press record i and a Release record j > i on the   *)
(* same in-range key, whenever the polls of the session saw non-decreasing *)
(* frame counts and the last one has passed both trigger frames, the key   *)
(* is up.                                                                  *)
(***************************************************************************)
IsPress(i) == input_test_steps[i].action = U(INPUT_TEST_COMMAND_PRESS_KEY)
IsRelease(i) == input_test_steps[i].action = U(INPUT_TEST_COMMAND_RELEASE_KEY)
SameKey(i, j) == input_test_steps[i].param_num = input_test_steps[j].param_num

C4_AsClaimed ==
    \A i \in Populated : \A j \in Populated :
        ( /\ i < j /\ IsPress(i) /\ IsRelease(j) /\ SameKey(i, j)
          /\ InRange(input_test_steps[j].param_num)
          /\ polled /\ mono
          /\ ULess(input_test_steps[i].frame, frame_count)
          /\ ULess(input_test_steps[j].frame, frame_count) )
        => ~Pressed(input_test_steps[j].param_num[2])

(***************************************************************************)
(* C4 as amended: if moreover every Press record on that key comes before  *)
(* j and has a trigger frame not above j's, then once the Release record j *)
(* has been handled (which a poll past its trigger frame does) the key is  *)
(* up, whatever the order of the frame counts.                             *)
(***************************************************************************)
ULeq(a, b) == ~ULess(b, a)

C4_RoundTrip ==
    \A i \in Populated : \A j \in Populated :
        ( /\ i < j /\ IsPress(i) /\ IsRelease(j) /\ SameKey(i, j)
          /\ InRange(input_test_steps[j].param_num)
          /\ input_test_steps[j].handled
          /\ \A p \in Populated :
                (IsPress(p) /\ SameKey(p, j))
                    => (p < j /\ ULeq(input_test_steps[p].frame,
                                      input_test_steps[j].frame)) )
        => ~Pressed(input_test_steps[j].param_num[2])

C4_Witness ==
    /\ pc = "running" /\ last_test_step = 2 /\ polled /\ mono
    /\ IsPress(0) /\ IsRelease(1) /\ SameKey(0, 1)
    /\ Holds(0, 10, INPUT_TEST_COMMAND_PRESS_KEY, 7)
    /\ input_test_steps[1].frame = U(20)
    /\ input_test_steps[0].handled /\ input_test_steps[1].handled
    /\ frame_count = U(21)
    /\ ~Pressed(7)

(***************************************************************************)
(* C5 as claimed: once a script has been read, the frames of the populated *)
(* records never decrease with the index.                                  *)
(***************************************************************************)
C5_AsClaimed ==
    (pc = "running" /\ source = "file" /\ Valid) =>
        \A i \in Populated : \A j \in Populated :
            i < j => ULeq(input_test_steps[i].frame, input_test_steps[j].frame)

(***************************************************************************)
(* C5 as amended: in a script whose members have values of their type, a  *)
(* record whose object omits "frame" has a frame above that of the record  *)
(* before it, unless that frame is within 60 of UINT_MAX (the sum wraps);  *)
(* an explicit frame is stored as given and may be below its predecessor.  *)
(***************************************************************************)
NoWrap60(a) == ULeq(a, <<Limb - 1, Limb - 1 - 60>>)

C5_DefaultedFramesAscend ==
    (pc = "running" /\ source = "file" /\ welltyped) =>
        \A i \in Populated :
            ( /\ i >= 1 /\ ~origin[i].has_frame
              /\ NoWrap60(input_test_steps[i - 1].frame) )
            => ULess(input_test_steps[i - 1].frame, input_test_steps[i].frame)

C5_Witness ==
    /\ pc = "running" /\ source = "file" /\ Valid /\ last_test_step = 2
    /\ origin[0].has_frame /\ input_test_steps[0].frame = U(10)
    /\ ~origin[1].has_frame /\ input_test_steps[1].frame = U(70)

(***************************************************************************)
(* C6: every record but the first whose object omits "frame" has the frame *)
(* of the record before it plus 60 (in unsigned arithmetic).               *)
(***************************************************************************)
C6_AsClaimed ==
    (pc = "running" /\ source = "file") =>
        \A i \in Populated :
            (i >= 1 /\ ~origin[i].has_frame)
            => input_test_steps[i].frame = U32Add(input_test_steps[i - 1].frame, 60)

(***************************************************************************)
(* C7 as claimed: after a first session reads a script whose one object    *)
(* omits "frame" and presses key 5, the record's frame is 0xffff + 60; key *)
(* 5 is up while no poll has seen more than that, and down afterwards.     *)
(***************************************************************************)
C7_Script ==
    /\ FirstRead(1)
    /\ ~origin[0].has_frame
    /\ input_test_steps[0].action = U(INPUT_TEST_COMMAND_PRESS_KEY)
    /\ input_test_steps[0].param_num = U(5)

C7_AsClaimed ==
    C7_Script =>
        /\ input_test_steps[0].frame = U32Add(FRAME_UNSET, 60)
        /\ (~polled \/ PolledUpTo(65535 + 60)) => ~Pressed(5)
        /\ (polled /\ mono /\ ULess(U(65535 + 60), frame_count)) => Pressed(5)

(***************************************************************************)
(* C7 as amended: the record's frame is 0 (the context of a read starts    *)
(* zeroed, not unset); key 5 is up before any poll and after polls at      *)
(* frame 0, and down once a poll has seen a frame count of 1 or more.      *)
(***************************************************************************)
C7_FirstFrameIsZero ==
    C7_Script =>
        /\ input_test_steps[0].frame = U(0)
        /\ (~polled \/ PolledUpTo(0)) => ~Pressed(5)
        /\ (polled /\ mono /\ ULess(U(0), frame_count)) => Pressed(5)
        /\ Pressed(5) <=> input_test_steps[0].handled

C7_Witness == C7_Script /\ PolledAt(1) /\ Pressed(5)

(***************************************************************************)
(* C8: after test_input_init has read a valid script of N <= 200 objects,  *)
(* last_test_step is N and records 0..N-1 come from objects 0..N-1.        *)
(***************************************************************************)
C8_AsClaimed ==
    (pc = "running" /\ source = "file" /\ Valid /\ nobj <= MAX_TEST_STEPS) =>
        /\ last_test_step = nobj
        /\ \A i \in 0 .. (nobj - 1) : i \in DOMAIN origin /\ origin[i].obj = i

(***************************************************************************)
(* C9: after test_input_init has read a script of more than 200 objects,   *)
(* last_test_step is 200, records 0..199 come from the first 200 objects,  *)
(* and the overflow diagnostic was emitted once, not before the end of the *)
(* parse.                                                                  *)
(***************************************************************************)
C9_Capacity ==
    /\ pc = "parsing" => warned = 0
    /\ (pc = "running" /\ source = "file" /\ nobj > MAX_TEST_STEPS) =>
          /\ last_test_step = MAX_TEST_STEPS
          /\ warned = 1
          /\ DOMAIN input_test_steps = 0 .. (MAX_TEST_STEPS - 1)
          /\ \A i \in 0 .. (MAX_TEST_STEPS - 1) : origin[i].obj = i

C9_Witness ==
    /\ pc = "running" /\ nobj = MAX_TEST_STEPS + 2
    /\ last_test_step = MAX_TEST_STEPS /\ warned = 1
    /\ origin[MAX_TEST_STEPS - 1].obj = MAX_TEST_STEPS - 1

(***************************************************************************)
(* C10: whenever test_input_init was given no usable script path, the      *)
(* scan bound is 0, whatever came before.                                  *)
(***************************************************************************)
C10_AsClaimed ==
    (pc = "running" /\ source = "none") =>
        /\ last_test_step = 0
        /\ \A f \in PollFrames :
              test_input_poll(input_test_steps, test_key_state, last_test_step, f).keys
                  = test_key_state

(***************************************************************************)
(* C11: after a read that met a syntax error behind k <= 200 complete      *)
(* objects, input_test_file_read has returned true, last_test_step is k,   *)
(* records 0..k-1 come from objects 0..k-1 and none of them is handled     *)
(* before the first poll.                                                  *)
(***************************************************************************)
C11_AsClaimed ==
    (pc = "running" /\ source = "file" /\ syntax_error /\ welltyped
        /\ nobj <= MAX_TEST_STEPS) =>
        /\ success
        /\ last_test_step = nobj
        /\ \A i \in 0 .. (nobj - 1) :
              /\ i \in DOMAIN origin /\ origin[i].obj = i
              /\ ~polled => ~input_test_steps[i].handled

(***************************************************************************)
(* C12: once test_input_free_input has run, every entry of test_key_state  *)
(* is zero, those of the slot DEFAULT_MAX_PADS that test_input_poll writes *)
(* included.                                                               *)
(***************************************************************************)
C12_AsClaimed ==
    (pc = "off" /\ session >= 1) => test_key_state = {}

\* bit i of an int16_t value
Bit(v, i) == ((v + 65536) \div (2 ^ i)) % 2 = 1

\* test_input_state was called since the last poll, for the joypad mask of port 0
MaskAsked ==
    /\ ret # <<>>
    /\ ret[1].port = 0
    /\ ret[1].device = RETRO_DEVICE_JOYPAD
    /\ ret[1].id = RETRO_DEVICE_ID_JOYPAD_MASK

(***************************************************************************)
(* C13: the joypad mask test_input_state returns for port 0 has bit i set, *)
(* for every i below RARCH_FIRST_CUSTOM_BIND, exactly when bind i is valid *)
(* and its key is down in test_key_state.                                  *)
(***************************************************************************)
C13_AsClaimed ==
    MaskAsked =>
        \A i \in 0 .. (RARCH_FIRST_CUSTOM_BIND - 1) :
            Bit(ret[1].value, i)
                <=> ( /\ BindAt(ret[1].binds, i).valid
                      /\ KeyDown(test_key_state, BindAt(ret[1].binds, i).key) )

(***************************************************************************)
(* C14: a call of test_input_state for a port other than 0 returns 0,      *)
(* whatever the device, the id, the binds and the keys that are down.      *)
(***************************************************************************)
C14_Returned ==
    (ret # <<>> /\ ret[1].port # 0) => ret[1].value = 0

C14_AnyArguments ==
    \A binds \in BindTables, port \in QueryPorts \ {0}, device \in QueryDevices,
       id \in QueryIds :
        test_input_state(test_key_state, binds, port, device, 0, id) = 0

C14_OtherPortsReadZero == C14_Returned /\ C14_AnyArguments

\* a key is down that the keyboard query of port 0 sees, and port 1 was asked
C14_Witness ==
    /\ ret # <<>> /\ ret[1].port = 1 /\ ret[1].device = RETRO_DEVICE_KEYBOARD
    /\ ret[1].id = 0 /\ ret[1].value = 0
    /\ test_input_state(test_key_state, ret[1].binds, 0, ret[1].device, 0, ret[1].id) = 1

(***************************************************************************)
(* C15: handling a due record marks it handled; a Press of a key code      *)
(* below RETROK_LAST sets that key's entry and no other, a Release clears  *)
(* that key's entry and no other, and a record with a key code of          *)
(* RETROK_LAST or more, or with an action other than 1 and 2, changes no   *)
(* entry.  Stated of the loop body in every reachable state, and of every  *)
(* poll in which exactly one record is due.                                *)
(***************************************************************************)
KeysAfter(step, ks) ==
    IF ~InRange(step.param_num) THEN ks
    ELSE IF step.action = U(INPUT_TEST_COMMAND_PRESS_KEY)
         THEN ks \cup { <<DEFAULT_MAX_PADS, step.param_num[2]>> }
    ELSE IF step.action = U(INPUT_TEST_COMMAND_RELEASE_KEY)
         THEN ks \ { <<DEFAULT_MAX_PADS, step.param_num[2]>> }
    ELSE ks

C15_Body ==
    \A i \in Populated :
        LET r == HandleStep(input_test_steps[i], test_key_state)
        IN  /\ r.step = [input_test_steps[i] EXCEPT !.handled = TRUE]
            /\ r.keys = KeysAfter(input_test_steps[i], test_key_state)

C15_PollRule ==
    PollStep =>
        \A i \in Populated :
            (\A j \in Populated : Due(input_test_steps[j], frame_count') <=> j = i)
            => /\ input_test_steps'[i].handled
               /\ test_key_state' = KeysAfter(input_test_steps[i], test_key_state)

C15_HandledEffects == []C15_Body /\ [][C15_PollRule]_vars

\* a Press of key code 400 has been handled next to a Press of key 5
C15_Witness ==
    /\ pc = "running" /\ polled /\ last_test_step = 2
    /\ IsPress(0) /\ input_test_steps[0].param_num = U(5)
    /\ IsPress(1) /\ input_test_steps[1].param_num = U(400)
    /\ input_test_steps[0].handled /\ input_test_steps[1].handled
    /\ test_key_state = { <<DEFAULT_MAX_PADS, 5>> }

(***************************************************************************)
(* C16: a call of test_input_state changes neither test_key_state nor any  *)
(* record; test_input_poll changes entries of the slot DEFAULT_MAX_PADS    *)
(* only, so that no entry of a slot below it is ever set; and no step of   *)
(* test_input_init (the parse included) changes test_key_state.            *)
(***************************************************************************)
QueryStep == pc = "running" /\ ret' # <<>>

InitStep == pc \in {"off", "parsing"}

C16_Frames ==
    /\ QueryStep => UNCHANGED <<test_key_state, input_test_steps, last_test_step>>
    /\ PollStep =>
          \A e \in (test_key_state' \ test_key_state)
                     \cup (test_key_state \ test_key_state') :
              e[1] = DEFAULT_MAX_PADS
    /\ InitStep => UNCHANGED test_key_state

C16_RealSlotsClear == \A e \in test_key_state : e[1] = DEFAULT_MAX_PADS

C16_FrameConditions == []C16_RealSlotsClear /\ [][C16_Frames]_vars

\* a key is down after a poll and a query has seen it
C16_Witness ==
    /\ pc = "running" /\ polled /\ test_key_state # {}
    /\ ret # <<>> /\ ret[1].value = 1

(***************************************************************************)
(* C17: a record whose object gives "frame" a number has exactly that      *)
(* number as its frame, 65535 included, at every place in the script.      *)
(***************************************************************************)
C17_AsClaimed ==
    (pc = "running" /\ source = "file") =>
        \A i \in Populated :
            origin[i].lexeme # <<>>
            => input_test_steps[i].frame = DecimalValue(origin[i].lexeme, U(0))

(***************************************************************************)
(* C18: a member with a name other than frame, action, param_num and       *)
(* param_str does not abort the parse, and its value changes none of the   *)
(* frame, action, param_num and param_str of the object in progress.       *)
(***************************************************************************)
C18_Step ==
    /\ (pc = "parsing" /\ pos = "key" /\ member' = "other") => pc' = "parsing"
    /\ (pc = "parsing" /\ pos = "value" /\ member = "other" /\ pc' = "parsing") =>
          /\ context'.frame = context.frame
          /\ context'.action = context.action
          /\ context'.param_num = context.param_num
          /\ context'.param_str = context.param_str

C18_AsClaimed == [][C18_Step]_vars

(***************************************************************************)
(* C19: every call of KTifJSONObjectEndHandler and, once test_input_init   *)
(* has returned, every scan of test_input_poll reads and writes records    *)
(* at indices 0 .. MAX_TEST_STEPS-1 only; last_test_step is then at most   *)
(* MAX_TEST_STEPS.                                                         *)
(***************************************************************************)
ObjectEndStep == pc = "parsing" /\ nobj' = nobj + 1

InArray(indices) == indices \subseteq 0 .. (MAX_TEST_STEPS - 1)

C19_Scan ==
    pc = "running" =>
        last_test_step <= MAX_TEST_STEPS /\ InArray(PollIndices(last_test_step))

C19_Handler == ObjectEndStep => InArray(StepIndices(context, current_test_step))

C19_AsClaimed == []C19_Scan /\ [][C19_Handler]_vars

(***************************************************************************)
(* C20: an object that does not name action, param_num or param_str is     *)
(* stored with what the script last gave that member before (0 or the      *)
(* empty string if nothing), and the end of an object resets frame only.   *)
(***************************************************************************)
NumberGiven(l) == IF l = <<>> THEN U(0) ELSE DecimalValue(l, U(0))

StringGiven(s) == IF s = <<>> THEN "" ELSE s[1]

C20_Step ==
    (ObjectEndStep /\ current_test_step < MAX_TEST_STEPS) =>
        LET rec == input_test_steps'[current_test_step]
        IN  /\ "action" \notin named => rec.action = NumberGiven(specified.action)
            /\ "param_num" \notin named
                  => rec.param_num = NumberGiven(specified.param_num)
            /\ "param_str" \notin named
                  => rec.param_str = StringGiven(specified.param_str)
            /\ context'.frame = FRAME_UNSET
            /\ context'.action = context.action
            /\ context'.param_num = context.param_num
            /\ context'.param_str = context.param_str

C20_AsClaimed == [][C20_Step]_vars

(***************************************************************************)
(* C21: with the host calling test_input_poll frame after frame on a frame *)
(* count that grows without bound, every record within the scan bound is   *)
(* handled in the end (or the driver is freed first); once they all are, a *)
(* call of test_input_poll with any frame count changes neither            *)
(* test_key_state nor any record, and they stay handled until the next     *)
(* test_input_init.                                                        *)
(***************************************************************************)
\* every record test_input_poll scans has been handled
AllConsumed ==
    /\ pc = "running"
    /\ \A i \in Populated : StepAt(input_test_steps, i).handled

\* a call of test_input_poll would leave the records and the keys as they are
C21_NoOp(curr_frame) ==
    LET r == test_input_poll(input_test_steps, test_key_state, last_test_step,
                             curr_frame)
    IN  r.steps = input_test_steps /\ r.keys = test_key_state

C21_Quiescent ==
    AllConsumed =>
        \A curr_frame \in PollFrames \cup {frame_count, NextFrame(frame_count)} :
            C21_NoOp(curr_frame)

C21_Stays ==
    (AllConsumed /\ PollStep) =>
        /\ AllConsumed'
        /\ UNCHANGED <<input_test_steps, test_key_state>>

C21_ReplayEnds ==
    /\ (pc = "running") ~> (AllConsumed \/ pc # "running")
    /\ []C21_Quiescent
    /\ [][C21_Stays]_vars

\* both records of a two-object script have been handled, one of them with the
\* largest frame an unsigned holds, which only a frame count of 2^32 passes
C21_Witness ==
    /\ AllConsumed
    /\ source = "file" /\ nobj = 2 /\ last_test_step = 2
    /\ frame_count = <<Limb, 0>>
    /\ \E i \in Populated :
          /\ input_test_steps[i].frame = <<Limb - 1, Limb - 1>>
          /\ fired[i] = 1
    /\ \E i \in Populated : input_test_steps[i].frame = U(10)

====
